---- MODULE Spec2Model ----
(***************************************************************************)
(* A model of the ytsr search engine: the retry orchestrator (ytsr), the   *)
(* pagination walker (parsePage2), the session cache (CACHE) and the       *)
(* response unwrappers of utils.ts.  Every action is one JavaScript        *)
(* run-to-completion step: from the start of a call, or from the           *)
(* settlement of an awaited network request, up to the next await, the     *)
(* return or the throw.                                                    *)
(***************************************************************************)
EXTENDS Integers, Sequences, FiniteSets, TLC

(***************************************************************************)
(* Bounds of the model.                                                    *)
(***************************************************************************)
\* Numbers are held in units of 1/LimitDen, so that limits such as 1.5
\* (a legal value of the `number` type) are inputs of the model.
LimitDen == 2
\* Number of continuation pages that offer a further continuation token.
MaxPages == 2
\* Number of raw items of a full result page.
PageSize == 4

(***************************************************************************)
(* Program constants.                                                      *)
(***************************************************************************)
DEFAULT_LIMIT == 10
MaxRetries == 3

\* JavaScript `undefined` / an absent key.
NoVal == "undefined"

\* The initial contents of the session cache.
CACHE_INIT == [clientVersion |-> "2.20240606.06.00", playlistParams |-> "EgIQAw%3D%3D"]

\* CACHE.has(key)
Has(cache, key) == cache[key] # NoVal

\* CACHE.delete('clientVersion'); CACHE.delete('playlistParams')
CacheCleared == [clientVersion |-> NoVal, playlistParams |-> NoVal]

(***************************************************************************)
(* Sequence helpers (Array.prototype.find, spread of nested arrays).       *)
(***************************************************************************)
RECURSIVE ConcatAll(_)
ConcatAll(ss) == IF ss = <<>> THEN <<>> ELSE Head(ss) \o ConcatAll(Tail(ss))

\* contents.find(x => key in x): the index of the first element carrying
\* the wrapper key, 0 when there is none.
FindIndex(s, key) ==
    IF \E i \in 1..Len(s) : s[i].w = key
    THEN CHOOSE i \in 1..Len(s) : s[i].w = key /\ \A j \in 1..(i - 1) : s[j].w # key
    ELSE 0

(***************************************************************************)
(* Raw items and the entity normalizer (parseItem).                        *)
(*   r   : the renderer key of the raw item                                *)
(*   id  : videoId / playlistId / contentId, NoId when the field is absent *)
(* The other fields of a renderer are taken to be well formed: thumbnails  *)
(* and owner URLs that `new URL` accepts, a numeric videoCount.            *)
(***************************************************************************)
NoId == 0

Raw(r, id) == [r |-> r, id |-> id]

\* The value parseItem returns: an entity or null.
Null == [type |-> "null", id |-> NoId]
Entity(type, id) == [type |-> type, id |-> id]

parseVideo(obj) == Entity("video", obj.id)

parsePlaylist(obj) == Entity("playlist", obj.id)

parsePlaylistFromLockup(lockup) ==
    IF lockup.id = NoId THEN Null
    ELSE Entity("playlist", lockup.id)

\* A variant that builds a video from a renderer without videoId.
parseItemPartial(item) ==
    IF item.r = "lockupViewModel" THEN parsePlaylistFromLockup(item)
    ELSE IF item.r \in {"videoRenderer", "gridVideoRenderer"} THEN parseVideo(item)
    ELSE IF item.r = "playlistRenderer" /\ item.id # NoId THEN parsePlaylist(item)
    ELSE Null

parseItem(item) ==
    IF item.r = "lockupViewModel" THEN parsePlaylistFromLockup(item)
    ELSE IF item.r \notin {"videoRenderer", "playlistRenderer", "gridVideoRenderer"}
              \/ item.id = NoId
         THEN Null
    ELSE IF item.r = "videoRenderer" THEN parseVideo(item)
    ELSE IF item.r = "playlistRenderer" THEN parsePlaylist(item)
    ELSE parseVideo(item)

(***************************************************************************)
(* JSON documents served by the upstream.                                  *)
(*   shape    : "null"  a falsy JSON value (null, false, 0, "")            *)
(*              "other" a truthy value of no recognized shape              *)
(*              "search" contents.twoColumnSearchResultsRenderer           *)
(*              "page2"  onResponseReceivedCommands with one command       *)
(*              "page2nocmd" onResponseReceivedCommands = []               *)
(*   list     : the key of primaryContents                                 *)
(*   contents : the list of wrapper elements                               *)
(*   est      : estimatedResults                                           *)
(*   cver     : the cver tracking parameter of responseContext             *)
(*   plp      : header...groups[1]...filters[2]...searchEndpoint.params    *)
(***************************************************************************)
\* A list element.  w is the wrapper key it carries ("nonObject" for an
\* element that is no object at all), ok says that the wrapper's inner value
\* has the shape its schema asks for.
Elem(w, ok, items, token) == [w |-> w, ok |-> ok, items |-> items, token |-> token]
ItemSection(items) == Elem("itemSectionRenderer", TRUE, items, NoVal)
RichItem(item) == Elem("richItemRenderer", TRUE, <<item>>, NoVal)
RichSection(item) == Elem("richSectionRenderer", TRUE, <<item>>, NoVal)
ContinuationItem(token) == Elem("continuationItemRenderer", TRUE, <<>>, token)
UnknownElem == Elem("shelfRenderer", TRUE, <<>>, NoVal)
NonObjectElem == Elem("nonObject", FALSE, <<>>, NoVal)
EmptyObject == Elem("{}", TRUE, <<>>, NoVal)

\* estimatedResults: t is the JavaScript type of the value; n the value of a
\* number; s the characters of a string.
Est(t, n, s) == [t |-> t, n |-> n, s |-> s]
NoEst == Est(NoVal, 0, <<>>)

Doc(shape, list, contents, est, cver, plp) ==
    [shape |-> shape, list |-> list, contents |-> contents, est |-> est,
     cver |-> cver, plp |-> plp]
NoJson == Doc(NoVal, NoVal, <<>>, NoEst, NoVal, NoVal)
NullDoc == Doc("null", NoVal, <<>>, NoEst, NoVal, NoVal)
OtherDoc == Doc("other", NoVal, <<>>, NoEst, NoVal, NoVal)

\* JavaScript truthiness of parsed.json.
Truthy(json) == json.shape \notin {NoVal, "null"}

(***************************************************************************)
(* The response unwrappers.                                                *)
(***************************************************************************)
\* YouTubeRendererItemSchema.safeParse(e): a union of three strict wrappers
\* and of z.object({continuationItemRenderer: z.unknown()}), which every
\* object satisfies.  The parsed data keeps only the keys of the alternative
\* that matched.
RendererItemSuccess(e) == e.w # "nonObject"

RendererItemData(e) ==
    IF e.w \in {"itemSectionRenderer", "richItemRenderer", "richSectionRenderer"} /\ e.ok
    THEN e
    ELSE IF e.w = "continuationItemRenderer" THEN e
    ELSE EmptyObject

\* YouTubeContinuationItemRendererSchema.safeParse(e)
ContinuationSuccess(e) == e.w = "continuationItemRenderer" /\ e.ok

\* A variant that recognizes every document.
parseSearchResponseLenient(json) ==
    [ok |-> TRUE, list |-> json.list,
     contents |-> [i \in 1..Len(json.contents) |-> RendererItemData(json.contents[i])],
     estimatedResults |-> json.est]

\* null (ok = FALSE) or the primaryContents and estimatedResults.
parseSearchResponse(json) ==
    IF json.shape = "search"
       /\ json.list \in {"sectionListRenderer", "richGridRenderer"}
       /\ \A i \in 1..Len(json.contents) : RendererItemSuccess(json.contents[i])
       /\ json.est.t \in {NoVal, "number", "string"}
    THEN [ok |-> TRUE, list |-> json.list,
          contents |-> [i \in 1..Len(json.contents) |-> RendererItemData(json.contents[i])],
          estimatedResults |-> json.est]
    ELSE [ok |-> FALSE, list |-> NoVal, contents |-> <<>>, estimatedResults |-> NoEst]

IsContinuation(x) == x.w = "continuationItemRenderer"
NotContinuation(x) == ~IsContinuation(x)
IsRich(x) == x.w \in {"richItemRenderer", "richSectionRenderer"}

ItemsOf(elems) == ConcatAll([i \in 1..Len(elems) |-> elems[i].items])

\* A variant that finds no continuation.
FirstContinuationNone(contents) == NoVal

\* The continuation of the first element carrying the continuation key.
FirstContinuation(contents) ==
    LET k == FindIndex(contents, "continuationItemRenderer")
    IN IF k # 0 /\ ContinuationSuccess(contents[k]) THEN contents[k].token ELSE NoVal

parseWrapper(pc) ==
    IF pc.list = "sectionListRenderer"
    THEN LET k == FindIndex(pc.contents, "itemSectionRenderer")
         IN [rawItems |-> IF k # 0 THEN pc.contents[k].items ELSE <<>>,
             continuation |-> FirstContinuation(pc.contents)]
    ELSE IF pc.list = "richGridRenderer"
    THEN [rawItems |-> ItemsOf(SelectSeq(SelectSeq(pc.contents, NotContinuation), IsRich)),
          continuation |-> FirstContinuation(pc.contents)]
    ELSE [rawItems |-> <<>>, continuation |-> NoVal]

\* null (ok = FALSE) or the continuationItems of the first command.
parsePage2Response(json) ==
    IF json.shape = "page2"
    THEN [ok |-> TRUE, items |-> json.contents]
    ELSE [ok |-> FALSE, items |-> <<>>]

RECURSIVE parsePage2Wrapper(_)
parsePage2Wrapper(continuationItems) ==
    IF continuationItems = <<>> THEN [rawItems |-> <<>>, continuation |-> NoVal]
    ELSE LET ci == continuationItems[Len(continuationItems)]
             rest == parsePage2Wrapper(SubSeq(continuationItems, 1, Len(continuationItems) - 1))
             data == RendererItemData(ci)
         IN IF ~RendererItemSuccess(ci) THEN rest
            ELSE IF data.w \in {"itemSectionRenderer", "richItemRenderer", "richSectionRenderer"}
                 THEN [rawItems |-> rest.rawItems \o data.items,
                       continuation |-> rest.continuation]
            ELSE IF data.w = "continuationItemRenderer" /\ ContinuationSuccess(data)
                 THEN [rawItems |-> rest.rawItems, continuation |-> data.token]
            ELSE rest

(***************************************************************************)
(* Number(string) for the strings the model serves: decimal digits give    *)
(* their value, the empty string gives 0, anything else gives NaN.         *)
(***************************************************************************)
Digits == <<"0", "1", "2", "3", "4", "5", "6", "7", "8", "9">>
IsDigit(c) == \E d \in 1..Len(Digits) : Digits[d] = c
DigitVal(c) == (CHOOSE d \in 1..Len(Digits) : Digits[d] = c) - 1

RECURSIVE DecimalValue(_)
DecimalValue(s) ==
    IF s = <<>> THEN 0
    ELSE DecimalValue(SubSeq(s, 1, Len(s) - 1)) * Len(Digits) + DigitVal(s[Len(s)])

Number(s) ==
    IF \A i \in 1..Len(s) : IsDigit(s[i])
    THEN [nan |-> FALSE, n |-> DecimalValue(s)]
    ELSE [nan |-> TRUE, n |-> 0]

\* A variant that reads a number only.
estimatedCountNumberOnly(estimatedResults) ==
    IF estimatedResults.t = "number" THEN estimatedResults.n ELSE 0

\* The `results` expression of ytsr.
estimatedCount(estimatedResults) ==
    IF estimatedResults.t = "number" THEN estimatedResults.n
    ELSE IF estimatedResults.t = "string"
         THEN (IF Number(estimatedResults.s).nan THEN 0 ELSE Number(estimatedResults.s).n)
    ELSE 0

(***************************************************************************)
(* checkArgs.                                                              *)
(* A search string is described by what checkArgs reads of it:             *)
(*   typ  : its JavaScript type                                            *)
(*   text : the string itself ("" for the empty string)                    *)
(*   base : it starts with https://www.youtube.com/                        *)
(*   path : the pathname of new URL(text, BASE_URL)                        *)
(*   sp   : its query carries an sp parameter                              *)
(*   sq   : the value of its search_query parameter, NoVal when absent     *)
(* A raw limit is [t, n]: t its type ("undefined", "number", "NaN",        *)
(* "string"), n its value (or Number(value)) in units of 1/LimitDen.       *)
(***************************************************************************)
Query(typ, text, base, path, sp, sq) ==
    [typ |-> typ, text |-> text, base |-> base, path |-> path, sp |-> sp, sq |-> sq]

\* !searchString
Falsy(q) == q.typ = "undefined" \/ (q.typ = "string" /\ q.text = "")

\* A utcOffsetMinutes value: t is its typeof ("undefined" when absent), n the
\* number (or the number a string spells).
Offset(t, n) == [t |-> t, n |-> n]
NoOffset == Offset(NoVal, 0)

NoOpts ==
    [limit |-> 0, safeSearch |-> FALSE, type |-> "video", search |-> NoVal,
     utcOffsetMinutes |-> NoOffset]

\* the string is a results URL carrying a filter (sp) parameter
IsFilterUrl(q) == q.base /\ q.path = "/results" /\ q.sp

\* A variant that misses an absent parameter only.
MissingSearchTermAbsent(q) == q.sq = NoVal

\* !inputURL.searchParams.get('search_query')
MissingSearchTerm(q) == q.sq \in {NoVal, ""}

checkArgs(searchString, options) ==
    IF Falsy(searchString)
    THEN [err |-> "search string is mandatory", opts |-> NoOpts]
    ELSE IF searchString.typ # "string"
    THEN [err |-> "search string must be of type string", opts |-> NoOpts]
    ELSE IF IsFilterUrl(searchString) /\ MissingSearchTerm(searchString)
    THEN [err |-> "filter links have to include a \"search_string\" query", opts |-> NoOpts]
    ELSE IF options.limit.t = "string" /\ options.limit.n > 0
    THEN [err |-> "ZodError", opts |-> NoOpts]
    ELSE [err |-> "none",
          opts |-> [limit |-> IF options.limit.t \in {NoVal, "NaN"} \/ options.limit.n <= 0
                              THEN DEFAULT_LIMIT * LimitDen
                              ELSE options.limit.n,
                    safeSearch |-> options.safeSearch = "true",
                    type |-> IF options.type \in {"video", "playlist"}
                             THEN options.type ELSE "video",
                    search |-> IF IsFilterUrl(searchString)
                               THEN searchString.sq ELSE searchString.text,
                    utcOffsetMinutes |-> IF options.utcOffsetMinutes.t = "number"
                                         THEN options.utcOffsetMinutes
                                         ELSE NoOffset]]

(***************************************************************************)
(* The request context and the bootstrap extractor.                        *)
(***************************************************************************)
\* DEFAULT_CONTEXT.client.utcOffsetMinutes
DEFAULT_UTC_OFFSET_MINUTES == -300

NoContext ==
    [def |-> FALSE, clientVersion |-> "", enableSafetyMode |-> FALSE,
     utcOffsetMinutes |-> DEFAULT_UTC_OFFSET_MINUTES]

\* if (options.utcOffsetMinutes): undefined and 0 are falsy
OffsetGiven(offset) == offset.t = "number" /\ offset.n # 0

buildPostContext(clientVersion, options) ==
    [def |-> TRUE,
     clientVersion |-> IF clientVersion = NoVal THEN "" ELSE clientVersion,
     enableSafetyMode |-> options.safeSearch,
     utcOffsetMinutes |-> IF OffsetGiven(options.utcOffsetMinutes)
                          THEN options.utcOffsetMinutes.n
                          ELSE DEFAULT_UTC_OFFSET_MINUTES]

\* A page body: emb says whether an embedded ytInitialData fragment is
\* present and parses ("valid"), present but no valid JSON ("truncated"), or
\* absent ("none"); json is the embedded document; textCv the value that
\* follows INNERTUBE_CONTEXT_CLIENT_VERSION in the text ("" when absent).
Body(emb, json, textCv) == [emb |-> emb, json |-> json, textCv |-> textCv]

\* The chain of tryParseBetween calls of parseBody.
tryParseBetween(body) == IF body.emb = "valid" THEN body.json ELSE NoJson

getClientVersion(json) ==
    IF Truthy(json) /\ json.cver \notin {NoVal, ""} THEN json.cver ELSE NoVal

ParsedBody(json, context) == [json |-> json, context |-> context]

parseBody(body, options) ==
    LET json == tryParseBetween(body)
        clientVersion == IF getClientVersion(json) # NoVal THEN getClientVersion(json)
                         ELSE body.textCv
    IN ParsedBody(json, buildPostContext(clientVersion, options))

getPlaylistParams(parsed) ==
    IF Truthy(parsed.json) /\ parsed.json.shape \in {"search", "other", "page2", "page2nocmd"}
    THEN parsed.json.plp ELSE NoVal

\* A variant that writes the client version of the context unguarded.
saveCacheUnguarded(parsed, opts, cache) ==
    [CACHE |-> [cache EXCEPT !.clientVersion = parsed.context.clientVersion],
     parsed |-> parsed]

\* saveCache returns the cache and the (possibly re-contexted) parsed body.
saveCache(parsed, opts, cache) ==
    LET hasCv == parsed.context.def /\ parsed.context.clientVersion # ""
        c1 == IF hasCv THEN [cache EXCEPT !.clientVersion = parsed.context.clientVersion]
              ELSE cache
        p1 == IF ~hasCv /\ Has(cache, "clientVersion")
              THEN [parsed EXCEPT !.context = buildPostContext(cache.clientVersion, opts)]
              ELSE parsed
        plParams == getPlaylistParams(p1)
    IN [CACHE |-> IF plParams \notin {NoVal, ""}
                  THEN [c1 EXCEPT !.playlistParams = plParams] ELSE c1,
        parsed |-> p1]

(***************************************************************************)
(* State.                                                                  *)
(***************************************************************************)
VARIABLES
    CACHE,          \* the process-wide session cache
    pc,             \* "idle", "fetch", "post", "page2", "done", "failed"
    searchString,   \* the arguments of the current call
    options,
    retries,        \* the attempt counter of the innermost ytsr activation
    opts,           \* the normalized options of the current attempt
    parsed,         \* the ParsedBody of the current attempt
    items,          \* ytsr: the items kept from the initial response
    results,        \* ytsr: the estimated result count
    frames,         \* parsedItems of the suspended parsePage2 activations
    error,          \* the error the call was rejected with, NoVal if none
    result,         \* the value the call resolved with
    net,            \* history: the network requests of the current call
    attempts,       \* history: the attempts of the current call
    judged,         \* history: the document the latest judgement was about
    pages           \* history: the batches unwrapped by the current attempt

vars == <<CACHE, pc, searchString, options, retries, opts, parsed, items, results,
          frames, error, result, net, attempts, judged, pages>>

NoResult == [query |-> NoVal, items |-> <<>>, results |-> 0]

\* The per-call state as one record, so that the code paths below are
\* functions from state to state.
Cur ==
    [CACHE |-> CACHE, pc |-> pc, searchString |-> searchString, options |-> options,
     retries |-> retries, opts |-> opts, parsed |-> parsed,
     items |-> items, results |-> results, frames |-> frames, error |-> error,
     result |-> result, net |-> net, attempts |-> attempts, judged |-> judged,
     pages |-> pages]

Become(st) ==
    /\ CACHE' = st.CACHE
    /\ pc' = st.pc
    /\ searchString' = st.searchString
    /\ options' = st.options
    /\ retries' = st.retries
    /\ opts' = st.opts
    /\ parsed' = st.parsed
    /\ items' = st.items
    /\ results' = st.results
    /\ frames' = st.frames
    /\ error' = st.error
    /\ result' = st.result
    /\ net' = st.net
    /\ attempts' = st.attempts
    /\ judged' = st.judged
    /\ pages' = st.pages

(***************************************************************************)
(* History bookkeeping.                                                    *)
(***************************************************************************)
\* A request: k is "GET", "POST" or "CONT"; r the attempt counter when it was
\* issued; out is "pending", "ok" or "fail"; the rest is the payload.
Request(k, r, context, params, query, continuation) ==
    [k |-> k, r |-> r, out |-> "pending", context |-> context, params |-> params,
     query |-> query, continuation |-> continuation]

\* An attempt: r its counter; json says how its response was judged
\* ("pending", "unusable", "usable"); failed that one of its requests failed.
Attempt(r) == [r |-> r, json |-> "pending", failed |-> FALSE]

\* A variant that leaves the request outstanding.
SettleNone(st, out) == st

\* The awaited request resolves (out = "ok") or rejects (out = "fail").
Settle(st, out) ==
    [st EXCEPT !.net[Len(st.net)].out = out,
               !.attempts[Len(st.attempts)].failed = @ \/ out = "fail"]

\* The current attempt decides on parsed.json: `judged` keeps the number of
\* the attempt and the document.
Judge(st, how) ==
    [st EXCEPT !.attempts[Len(st.attempts)].json = how,
               !.judged = [attempt |-> Len(st.attempts), doc |-> st.parsed.json]]

\* A batch was unwrapped: `matching` raw items normalize to the requested
\* type, `token` says whether it carries a continuation token.
Unwrapped(st, matching, token) ==
    [st EXCEPT !.pages = Append(@, [matching |-> matching, token |-> token])]

\* throw new Error(message) out of ytsr
Throw(st, message) == [st EXCEPT !.pc = "failed", !.error = message]

\* await fetch(...) / await doPost(...)
Await(st, where, request) == [st EXCEPT !.pc = where, !.net = Append(@, request)]

(***************************************************************************)
(* Normalizing, filtering and truncating one batch of raw items:           *)
(*   rawItems.map(parseItem)                                               *)
(*           .filter(r => r !== null && r.type === opts.type)              *)
(*           .filter((_, index) => index < opts.limit)                     *)
(***************************************************************************)
MapParseItem(rawItems) == [i \in 1..Len(rawItems) |-> parseItem(rawItems[i])]

\* A variant that drops the nulls only.
FilterNullOnly(parsedAll, type) ==
    LET Match(r) == r # Null
    IN SelectSeq(parsedAll, Match)

\* .filter(r => r !== null && r.type === opts.type)
FilterType(parsedAll, type) ==
    LET Match(r) == r # Null /\ r.type = type
    IN SelectSeq(parsedAll, Match)

\* index < limit, index counted from 0, limit in units of 1/LimitDen
FilterLimit(seq, limit) ==
    LET n == Cardinality({i \in 1..Len(seq) : (i - 1) * LimitDen < limit})
    IN SubSeq(seq, 1, n)

KeepItems(rawItems, o) == FilterLimit(FilterType(MapParseItem(rawItems), o.type), o.limit)

\* opts.limit -= n
Decrement(limit, n) == limit - n * LimitDen

\* A variant that stops only below 0.
LimitExhaustedBelowZero(limit) == limit < 0

\* opts.limit < 1
LimitExhausted(limit) == limit < LimitDen

\* A variant that takes every token for present.
NoTokenNever(token) == FALSE

\* !token
NoToken(token) == token \in {NoVal, ""}

(***************************************************************************)
(* parsePage2 (the pagination walker).                                     *)
(***************************************************************************)
\* ytsr resumes after `await parsePage2(...)` with nestedResp and returns.
ytsrReturn(st, nestedResp) ==
    [st EXCEPT !.pc = "done", !.frames = <<>>,
               !.result = [query |-> st.opts.search,
                           items |-> FilterType(st.items \o nestedResp, st.opts.type),
                           results |-> st.results]]

\* The innermost parsePage2 activation returns `value`: every suspended
\* activation appends it to its own parsedItems and returns in turn.
parsePage2Return(st, value) == ytsrReturn(st, ConcatAll(st.frames) \o value)

\* doPost rejected in the innermost activation, outside its try block: the
\* rejection reaches the caller.  A suspended parsePage2 awaits the nested
\* call inside its try block and returns []; ytsr does not catch it.
parsePage2Reject(st) ==
    IF st.frames = <<>> THEN Throw(st, "TransportError")
    ELSE parsePage2Return([st EXCEPT !.frames = SubSeq(@, 1, Len(@) - 1)], <<>>)

ContinuationRequest(st, token) ==
    Request("CONT", st.retries, st.parsed.context, NoVal, NoVal, token)

\* parsePage2 from the settlement of its doPost to its next await or return.
parsePage2(st, json) ==
    LET page == parsePage2Response(json)
        wrapper == parsePage2Wrapper(page.items)
        parsedItems == KeepItems(wrapper.rawItems, st.opts)
        limit == Decrement(st.opts.limit, Len(parsedItems))
        nextToken == wrapper.continuation
        st1 == [Unwrapped(st, Len(FilterType(MapParseItem(wrapper.rawItems), st.opts.type)),
                          ~NoToken(nextToken))
                EXCEPT !.opts.limit = limit]
    IN IF ~page.ok THEN parsePage2Return(st, <<>>)
       ELSE IF NoToken(nextToken) \/ LimitExhausted(limit)
            THEN parsePage2Return(st1, parsedItems)
       ELSE Await([st1 EXCEPT !.frames = Append(@, parsedItems)], "page2",
                  ContinuationRequest(st1, nextToken))

(***************************************************************************)
(* ytsr (the retry orchestrator), in the three stretches between awaits.   *)
(***************************************************************************)
RECURSIVE ytsr(_, _)

\* A variant that fetches for safe-search and for a cold cache.
shouldFetchWhenSafe(o, cache) ==
    \/ o.safeSearch
    \/ ~Has(cache, "clientVersion")
    \/ ~Has(cache, "playlistParams")

\* const shouldFetch = !opts.safeSearch || !CACHE.has(...) || !CACHE.has(...)
shouldFetch(o, cache) ==
    \/ ~o.safeSearch
    \/ ~Has(cache, "clientVersion")
    \/ ~Has(cache, "playlistParams")

\* A variant that clears the cache in the last attempt.
ClearsCacheAtLast(r) == r = 1

\* if (retries === 2): the cache is cleared
ClearsCache(r) == r = 2

\* A variant that lets the counter pass 0.
ExhaustedBelowZero(r) == r < 0

\* if (retries === 0) throw
Exhausted(r) == r = 0

\* From `if (!parsed.json)` to the await of parsePage2 or the return.
ytsrAfterPost(st) ==
    LET searchResponse == parseSearchResponse(st.parsed.json)
        wrapper == parseWrapper(searchResponse)
        kept == KeepItems(wrapper.rawItems, st.opts)
        limit == Decrement(st.opts.limit, Len(kept))
        token == wrapper.continuation
        st1 == [Unwrapped(Judge(st, "usable"),
                          Len(FilterType(MapParseItem(wrapper.rawItems), st.opts.type)),
                          ~NoToken(token))
                       EXCEPT !.items = kept, !.opts.limit = limit,
                       !.results = estimatedCount(searchResponse.estimatedResults)]
    IN IF ~Truthy(st.parsed.json) THEN ytsr(Judge(st, "unusable"), st.retries - 1)
       ELSE IF ~searchResponse.ok THEN ytsr(Judge(st, "unusable"), st.retries - 1)
       ELSE IF NoToken(token) \/ LimitExhausted(limit) THEN ytsrReturn(st1, <<>>)
       ELSE Await(st1, "page2", ContinuationRequest(st1, token))

\* A variant that posts in every attempt.
NeedsPostAlways(o, json) == TRUE

\* A variant that posts for safe-search only.
NeedsPostSafeOnly(o, json) == o.safeSearch

\* else if (opts.safeSearch || !parsed.json)
NeedsPost(o, json) == o.safeSearch \/ ~Truthy(json)

\* From saveCache to the await of the API POST.
ytsrAfterFetch(st) ==
    LET saved == saveCache(st.parsed, st.opts, st.CACHE)
        st1 == [st EXCEPT !.CACHE = saved.CACHE, !.parsed = saved.parsed]
    IN IF st1.opts.type = "playlist"
       THEN Await(st1, "post",
                  Request("POST", st1.retries, st1.parsed.context,
                          st1.CACHE.playlistParams, st1.searchString.text, NoVal))
       ELSE IF NeedsPost(st1.opts, st1.parsed.json)
       THEN Await(st1, "post",
                  Request("POST", st1.retries, st1.parsed.context, NoVal,
                          st1.searchString.text, NoVal))
       ELSE ytsrAfterPost(st1)

\* From the entry of ytsr(searchString, options, r) to the await of the page
\* fetch.
ytsr(st, r) ==
    LET st1 == [st EXCEPT !.retries = r,
                          !.CACHE = IF ClearsCache(r) THEN CacheCleared ELSE @,
                          !.attempts = Append(@, Attempt(r))]
        args == checkArgs(st.searchString, st.options)
        st2 == [st1 EXCEPT !.opts = args.opts, !.parsed = ParsedBody(NoJson, NoContext)]
    IN IF Exhausted(r) THEN Throw(st1, "Unable to find JSON!")
       ELSE IF args.err # "none" THEN Throw(st1, args.err)
       ELSE IF shouldFetch(st2.opts, st2.CACHE)
            THEN Await(st2, "fetch", Request("GET", r, NoContext, NoVal, st2.opts.search, NoVal))
       ELSE ytsrAfterFetch(st2)

(***************************************************************************)
(* The upstream: the bodies and documents a request may be answered with.  *)
(* Item ids carry the number of the page they were served on.              *)
(***************************************************************************)
ItemId(page, i) == page * 10 + i

VideoItems(page, n) == [i \in 1..n |-> Raw("videoRenderer", ItemId(page, i))]

MixedItems(page) ==
    << Raw("playlistRenderer", ItemId(page, 1)),
       Raw("videoRenderer", NoId),
       Raw("gridVideoRenderer", ItemId(page, 3)),
       Raw("channelRenderer", ItemId(page, 4)),
       Raw("lockupViewModel", ItemId(page, 5)) >>

\* Pages 0..MaxPages offer a continuation token, the page after them none.
Token(page) == IF page <= MaxPages THEN "token" ELSE NoVal

Ests == { NoEst, Est("number", 7, <<>>), Est("string", 0, <<"1", "2">>),
          Est("string", 0, <<"1", "x">>) }

\* Recognized search documents.
SearchDocs ==
    { Doc("search", "sectionListRenderer",
          <<ItemSection(VideoItems(0, PageSize)), ContinuationItem(Token(0))>>,
          e, "cvJson", "ppJson") : e \in Ests }
    \cup
    { Doc("search", "sectionListRenderer", <<ItemSection(MixedItems(0))>>,
          NoEst, NoVal, NoVal),
      Doc("search", "richGridRenderer",
          <<RichItem(Raw("lockupViewModel", ItemId(0, 1))), UnknownElem,
            RichSection(Raw("playlistRenderer", ItemId(0, 2))),
            ContinuationItem(Token(0))>>,
          Est("number", 7, <<>>), NoVal, NoVal),
      Doc("search", "sectionListRenderer", <<ItemSection(<<>>)>>, NoEst, NoVal, NoVal),
      Doc("search", "sectionListRenderer",
          <<UnknownElem,
            ItemSection(<<Raw("playlistRenderer", ItemId(0, 1)),
                          Raw("channelRenderer", ItemId(0, 2))>>)>>,
          Est("number", 7, <<>>), NoVal, NoVal) }

\* Documents the search schema rejects.
UnusableDocs ==
    { NullDoc, OtherDoc,
      Doc("search", "sectionListRenderer",
          <<ItemSection(VideoItems(0, 1)), NonObjectElem>>, NoEst, NoVal, NoVal),
      Doc("search", "sectionListRenderer", <<ItemSection(VideoItems(0, 1))>>,
          Est("boolean", 0, <<>>), NoVal, NoVal) }

ApiDocs == SearchDocs \cup UnusableDocs

\* Documents embedded in the search page.
SeedDocs ==
    { Doc("search", "sectionListRenderer",
          <<ItemSection(VideoItems(0, PageSize)), ContinuationItem(Token(0))>>,
          Est("string", 0, <<"1", "2">>), "cvJson", "ppJson"),
      Doc("search", "sectionListRenderer", <<ItemSection(MixedItems(0))>>,
          NoEst, NoVal, NoVal),
      Doc("search", "sectionListRenderer", <<ItemSection(<<>>)>>, NoEst, NoVal, NoVal),
      OtherDoc }

Bodies ==
    { Body("valid", d, "") : d \in SeedDocs }
    \cup { Body("truncated", NoJson, "cvText"), Body("none", NoJson, "") }

\* Continuation batches served for page number `page`.
Page2Docs(page) ==
    { Doc("page2", NoVal,
          <<ItemSection(VideoItems(page, PageSize)), ContinuationItem(Token(page))>>,
          NoEst, NoVal, NoVal),
      Doc("page2", NoVal,
          <<RichItem(Raw("playlistRenderer", ItemId(page, 1))), NonObjectElem,
            UnknownElem, ContinuationItem(Token(page))>>, NoEst, NoVal, NoVal),
      Doc("page2", NoVal, <<ItemSection(MixedItems(page))>>, NoEst, NoVal, NoVal),
      Doc("page2nocmd", NoVal, <<>>, NoEst, NoVal, NoVal),
      OtherDoc }

(***************************************************************************)
(* The calls made.                                                         *)
(***************************************************************************)
Queries ==
    { Query("string", "", FALSE, "/", FALSE, NoVal),
      Query("undefined", NoVal, FALSE, "/", FALSE, NoVal),
      Query("number", "42", FALSE, "/", FALSE, NoVal),
      Query("string", "music", FALSE, "/music", FALSE, NoVal),
      Query("string", "https://www.youtube.com/results?search_query=music&sp=EgIQAQ",
            TRUE, "/results", TRUE, "music"),
      Query("string", "https://www.youtube.com/results?sp=EgIQAQ",
            TRUE, "/results", TRUE, NoVal),
      Query("string", "https://www.youtube.com/results?search_query=&sp=EgIQAQ",
            TRUE, "/results", TRUE, "") }

\* Raw limits: the forms checkArgs replaces by the default, a numeric string
\* (which the options schema rejects), and positive numbers, whole and not.
DefaultedLimits ==
    { [t |-> NoVal, n |-> 0], [t |-> "NaN", n |-> 0], [t |-> "number", n |-> 0],
      [t |-> "number", n |-> 0 - LimitDen] }
PositiveLimits ==
    { [t |-> "number", n |-> LimitDen], [t |-> "number", n |-> LimitDen + 1],
      [t |-> "number", n |-> 2 * PageSize * LimitDen] }
Limits == DefaultedLimits \cup PositiveLimits \cup {[t |-> "string", n |-> LimitDen]}

Opt(limit, type, safeSearch) ==
    [limit |-> limit, type |-> type, safeSearch |-> safeSearch,
     utcOffsetMinutes |-> NoOffset]

\* Raw utcOffsetMinutes values: zero, a number east of Greenwich, and a
\* string.
Offsets == { Offset("number", 0), Offset("number", 60), Offset("string", 60) }

\* Every combination of the values that lead to different behaviour, and
\* each other raw form of an option once.
Options ==
    { Opt(l, t, s) : l \in PositiveLimits \cup {[t |-> NoVal, n |-> 0]},
                     t \in {"video", "playlist"}, s \in {"true", "false"} }
    \cup { Opt(l, NoVal, NoVal) : l \in Limits }
    \cup { Opt([t |-> NoVal, n |-> 0], "channel", NoVal) }
    \cup { [Opt([t |-> "number", n |-> LimitDen], "video", "true")
              EXCEPT !.utcOffsetMinutes = u] : u \in Offsets }

NoParsed == ParsedBody(NoJson, NoContext)
NoJudgement == [attempt |-> 0, doc |-> NoJson]
NoQuery == Query("undefined", NoVal, FALSE, "/", FALSE, NoVal)
NoOptions == Opt([t |-> NoVal, n |-> 0], NoVal, NoVal)

Fresh(cache, q, o) ==
    [CACHE |-> cache, pc |-> "idle", searchString |-> q, options |-> o,
     retries |-> MaxRetries, opts |-> NoOpts, parsed |-> NoParsed, items |-> <<>>,
     results |-> 0, frames |-> <<>>, error |-> NoVal, result |-> NoResult,
     net |-> <<>>, attempts |-> <<>>, judged |-> NoJudgement, pages |-> <<>>]

(***************************************************************************)
(* Actions.                                                                *)
(***************************************************************************)
Init ==
    /\ CACHE = CACHE_INIT
    /\ pc = "idle"
    /\ searchString = NoQuery
    /\ options = NoOptions
    /\ retries = MaxRetries
    /\ opts = NoOpts
    /\ parsed = NoParsed
    /\ items = <<>>
    /\ results = 0
    /\ frames = <<>>
    /\ error = NoVal
    /\ result = NoResult
    /\ net = <<>>
    /\ attempts = <<>>
    /\ judged = NoJudgement
    /\ pages = <<>>

\* The calls made: every query with every options object, a filter URL with
\* the default limit only.
Calls ==
    { c \in Queries \X Options :
        IsFilterUrl(c[1]) => c[2].limit = [t |-> NoVal, n |-> 0] }

\* ytsr(searchString, options): a call, made when no call is in progress.
Call ==
    /\ pc = "idle"
    /\ \E c \in Calls : Become(ytsr(Fresh(CACHE, c[1], c[2]), MaxRetries))

\* The caller has received the result or the error of the call; only the
\* session cache outlives the call.
Settled ==
    /\ pc \in {"done", "failed"}
    /\ Become(Fresh(CACHE, NoQuery, NoOptions))

\* The page fetch resolves with a body.
FetchReturns ==
    /\ pc = "fetch"
    /\ \E body \in Bodies :
          Become(ytsrAfterFetch([Settle(Cur, "ok") EXCEPT
                                    !.parsed = parseBody(body, opts)]))

\* fetch() or res.text() rejects: nothing catches it.
FetchFails ==
    /\ pc = "fetch"
    /\ Become(Throw(Settle(Cur, "fail"), "TransportError"))

\* The API POST resolves with a JSON value.
PostReturns ==
    /\ pc = "post"
    /\ \E json \in ApiDocs :
          LET st == [Settle(Cur, "ok") EXCEPT !.parsed.json = json]
          IN IF opts.type = "playlist" /\ ~Truthy(json)
             THEN Become(Throw(Judge(st, "unusable"), "Cannot searching for Playlist!"))
             ELSE Become(ytsrAfterPost(st))

\* fetch() rejects or r.json() rejects on a body that is no JSON.
PostFails ==
    /\ pc = "post"
    /\ LET st == Settle(Cur, "fail")
       IN IF opts.type = "playlist" \/ retries = 1
          THEN Become(Throw(st, "TransportError"))
          ELSE Become(ytsrAfterPost(st))

\* The continuation POST of the innermost parsePage2 resolves.
Page2Returns ==
    /\ pc = "page2"
    /\ \E json \in Page2Docs(Len(frames) + 1) :
          Become(parsePage2(Settle(Cur, "ok"), json))

Page2Fails ==
    /\ pc = "page2"
    /\ Become(parsePage2Reject(Settle(Cur, "fail")))

Next ==
    \/ Call
    \/ Settled
    \/ FetchReturns
    \/ FetchFails
    \/ PostReturns
    \/ PostFails
    \/ Page2Returns
    \/ Page2Fails

Spec == Init /\ [][Next]_vars

(***************************************************************************)
(* The first call of a session followed to its end.                        *)
(***************************************************************************)
NextOneCall ==
    \/ Call
    \/ FetchReturns
    \/ FetchFails
    \/ PostReturns
    \/ PostFails
    \/ Page2Returns
    \/ Page2Fails

\* Every awaited request settles: the promise of fetch() resolves or rejects,
\* and the suspended call is resumed with the outcome.  The three conditions
\* are weak fairness of the answers to the page fetch, to the API POST and to
\* the continuation POST.  Those for the two POSTs are written out:
\* WF_vars(A) is []<>~ENABLED <<A>>_vars \/ []<><<A>>_vars, and an answer to
\* a POST is possible (and changes `net`) exactly while pc names its await;
\* this spares the evaluation of ENABLED over the retry and the pagination
\* recursion.
FairSpec ==
    /\ Init /\ [][NextOneCall]_vars
    /\ WF_vars(FetchFails \/ FetchReturns)
    /\ ([]<>(pc # "post") \/ []<><<PostFails \/ PostReturns>>_vars)
    /\ ([]<>(pc # "page2") \/ []<><<Page2Fails \/ Page2Returns>>_vars)

(***************************************************************************)
(* Vocabulary of the properties.                                           *)
(***************************************************************************)
\* The limit a call asks for, in units of 1/LimitDen: options.limit when it
\* is a positive number, the default when it is missing, NaN or <= 0.
RequestedLimit(o) ==
    IF o.limit.t = "number" /\ o.limit.n > 0 THEN o.limit.n
    ELSE DEFAULT_LIMIT * LimitDen

\* The type a call asks for: a missing or invalid type counts as video.
RequestedType(o) == IF o.type = "playlist" THEN "playlist" ELSE "video"

\* Items served with the initial response carry page number 0.
FromInitialPage(item) == item.id < ItemId(1, 0)

(***************************************************************************)
(* C1: a successful call returns at most L items, L being options.limit    *)
(* when it is a positive number and 10 otherwise, over the initial         *)
(* response and all continuation pages together.                           *)
(***************************************************************************)
C1_ItemsWithinLimit ==
    pc = "done" => Len(result.items) * LimitDen <= RequestedLimit(options)

(***************************************************************************)
(* C2: every item of a successful result has the requested type, a missing *)
(* or invalid options.type counting as video, for the items of the initial *)
(* response and of the continuation pages alike.                           *)
(***************************************************************************)
C2_ItemsHaveRequestedType ==
    pc = "done" =>
        \A i \in 1..Len(result.items) : result.items[i].type = RequestedType(options)

\* A call with an invalid type returned items of the initial response and
\* of a continuation page.
C2_Witness ==
    /\ pc = "done"
    /\ options.type = "channel"
    /\ \E i \in 1..Len(result.items) : FromInitialPage(result.items[i])
    /\ \E i \in 1..Len(result.items) : ~FromInitialPage(result.items[i])

(***************************************************************************)
(* More vocabulary.                                                        *)
(***************************************************************************)
TerminalError == "Unable to find JSON!"
PlaylistError == "Cannot searching for Playlist!"
InputErrors ==
    { "search string is mandatory", "search string must be of type string",
      "filter links have to include a \"search_string\" query" }

Awaiting == pc \in {"fetch", "post", "page2"}

LastRequest == net[Len(net)]

AttemptCounters == [i \in 1..Len(attempts) |-> attempts[i].r]

\* Every attempt that ran obtained a response and found it unusable: no
\* JSON, or a document of unrecognized shape.
AllAttemptsUnusable ==
    /\ attempts # <<>>
    /\ \A i \in 1..Len(attempts) :
          attempts[i].r >= 1 => attempts[i].json = "unusable" /\ ~attempts[i].failed

\* The API POST of a playlist search was answered by a falsy JSON value.
PlaylistPostFalsy ==
    /\ opts.type = "playlist"
    /\ judged.attempt = Len(attempts)
    /\ ~Truthy(judged.doc)

\* An empty or non-string query, or a filter URL without a search term.
InvalidQuery(q) ==
    \/ q.typ # "string"
    \/ q.text = ""
    \/ (q.base /\ q.path = "/results" /\ q.sp /\ q.sq \in {NoVal, ""})

\* A call whose arguments checkArgs accepts.
ValidCall == ~InvalidQuery(searchString) /\ options.limit.t # "string"

C4_OnlyTerminalError ==
    /\ (pc = "done" /\ net # <<>>) => \E i \in 1..Len(net) : net[i].out = "ok"
    /\ (pc = "failed" /\ ValidCall) => error = TerminalError

(***************************************************************************)
(* C5: a transport failure of the page fetch or of the initial API POST    *)
(* does not fail the call while attempts remain.                           *)
(***************************************************************************)
C5_TransportFailureRetried ==
    ~( /\ pc = "failed"
       /\ retries > 1
       /\ net # <<>>
       /\ LastRequest.k \in {"GET", "POST"}
       /\ LastRequest.out = "fail" )

(***************************************************************************)
(* C6: an attempt that obtains a recognized document with no item of the   *)
(* requested type and no continuation token makes the call return an empty *)
(* items list, in that attempt and without error.                          *)
(***************************************************************************)
\* The document holds no raw item that normalizes to `type` and no
\* continuation token, whatever wrapper they would sit in.
NoMatchNoToken(doc, type) ==
    \A i \in 1..Len(doc.contents) :
        /\ \A k \in 1..Len(doc.contents[i].items) :
              parseItem(doc.contents[i].items[k]).type # type
        /\ ~(doc.contents[i].w = "continuationItemRenderer"
              /\ doc.contents[i].token \notin {NoVal, ""})

EmptyRecognized(doc, type) == parseSearchResponse(doc).ok /\ NoMatchNoToken(doc, type)

C6_EmptyResultIsSuccess ==
    (judged.attempt > 0 /\ EmptyRecognized(judged.doc, RequestedType(options))) =>
        /\ pc = "done"
        /\ error = NoVal
        /\ result.items = <<>>
        /\ judged.attempt = Len(attempts)
        /\ \A i \in 1..Len(net) : net[i].k # "CONT"

\* A video search returned the empty list for a recognized document that
\* holds only items of other types.
C6_Witness ==
    /\ pc = "done"
    /\ result.items = <<>>
    /\ RequestedType(options) = "video"
    /\ EmptyRecognized(judged.doc, "video")
    /\ \E i \in 1..Len(judged.doc.contents) : judged.doc.contents[i].items # <<>>

(***************************************************************************)
(* C7: an empty or non-string query, or a filter URL without a search     *)
(* term, fails the call in its first attempt, with no network request, no  *)
(* further attempt and the session cache unchanged.                        *)
(***************************************************************************)
C7_InvalidQueryFailsAtOnce ==
    [][ (pc = "idle" /\ pc' # "idle" /\ InvalidQuery(searchString')) =>
            /\ pc' = "failed"
            /\ error' \in InputErrors
            /\ net' = <<>>
            /\ AttemptCounters' = <<MaxRetries>>
            /\ CACHE' = CACHE ]_vars

\* A filter URL whose search_query is empty was rejected.
C7_Witness ==
    /\ pc = "failed"
    /\ searchString.typ = "string"
    /\ searchString.sp
    /\ searchString.sq = ""
    /\ error = "filter links have to include a \"search_string\" query"
    /\ net = <<>>

(***************************************************************************)
(* C8: a failure of a continuation request, the first one included, never  *)
(* makes the call raise: the call returns a result.                        *)
(***************************************************************************)
C8_ContinuationFailureSwallowed ==
    (net # <<>> /\ LastRequest.k = "CONT" /\ LastRequest.out = "fail") => pc = "done"

(***************************************************************************)
(* C9: the walker issues a continuation request only while the remaining   *)
(* limit is at least 1 and a token is available; for a chain of pages that *)
(* each yield matching items it returns exactly                            *)
(* min(remaining limit, total matching items of the chain) items.          *)
(***************************************************************************)
RECURSIVE SumMatching(_)
SumMatching(ps) == IF ps = <<>> THEN 0 ELSE Head(ps).matching + SumMatching(Tail(ps))

ContinuationRequests == {i \in 1..Len(net) : net[i].k = "CONT"}

\* The batches the walker unwrapped (the first batch is the initial one).
WalkerPages == SubSeq(pages, 2, Len(pages))

\* The call returned after a chain of continuation pages, every one of
\* which arrived and yielded at least one matching item.
ChainYielded ==
    /\ pc = "done"
    /\ ContinuationRequests # {}
    /\ \A i \in ContinuationRequests : net[i].out = "ok"
    /\ Len(WalkerPages) = Cardinality(ContinuationRequests)
    /\ \A i \in 1..Len(WalkerPages) : WalkerPages[i].matching >= 1

\* The limit that remained when ytsr called the walker.
RemainingLimit == RequestedLimit(options) - Len(items) * LimitDen

WalkerReturned == Len(result.items) - Len(items)

Min(a, b) == IF a <= b THEN a ELSE b

C9_WalkerReturnsMin ==
    /\ pc = "page2" =>
          (opts.limit >= LimitDen /\ LastRequest.continuation \notin {NoVal, ""})
    /\ ChainYielded =>
          WalkerReturned * LimitDen = Min(RemainingLimit, SumMatching(WalkerPages) * LimitDen)

\* With a whole limit the walker does return that minimum: the statement
\* above fails only for limits that are not whole numbers.
WholeLimitWalkerReturnsMin ==
    (ChainYielded /\ RequestedLimit(options) % LimitDen = 0) =>
        WalkerReturned * LimitDen = Min(RemainingLimit, SumMatching(WalkerPages) * LimitDen)

WalkerRequestGuard ==
    pc = "page2" =>
        (opts.limit >= LimitDen /\ LastRequest.continuation \notin {NoVal, ""})

(***************************************************************************)
(* C10: the results field of a successful result is the estimatedResults   *)
(* of the initial response when that is a number, its numeric value when   *)
(* it is a numeric string and 0 when it is absent, whatever the limit and  *)
(* the number of items returned.                                           *)
(***************************************************************************)
NumericString(s) == s # <<>> /\ \A i \in 1..Len(s) : IsDigit(s[i])

C10_ResultsIsEstimate ==
    pc = "done" =>
        LET est == judged.doc.est
        IN /\ est.t = "number" => result.results = est.n
           /\ (est.t = "string" /\ NumericString(est.s)) =>
                 result.results = DecimalValue(est.s)
           /\ est.t = NoVal => result.results = 0

\* A call limited to one item returned one item and the estimate 12 that
\* the response carried as the string "12".
C10_Witness ==
    /\ pc = "done"
    /\ options.limit = [t |-> "number", n |-> LimitDen]
    /\ judged.doc.est = Est("string", 0, <<"1", "2">>)
    /\ result.results = 12
    /\ Len(result.items) = 1

(***************************************************************************)
(* C11: the search term sent as `query` in every API POST body of a search *)
(* equals the `query` field of the result, which is the normalized search  *)
(* term: the input string for a plain query, the search_query parameter    *)
(* for a filter URL.                                                       *)
(***************************************************************************)
\* The normalized search term of a query.
NormalizedTerm(q) == IF IsFilterUrl(q) THEN q.sq ELSE q.text

SearchPosts == {i \in 1..Len(net) : net[i].k = "POST"}

C11_PostQueryIsResultQuery ==
    pc = "done" =>
        /\ result.query = NormalizedTerm(searchString)
        /\ \A i \in SearchPosts : net[i].query = result.query

\* The query reported in the result is the normalized term, whatever the
\* POST bodies carried.
ResultQueryIsNormalizedTerm ==
    pc = "done" => result.query = NormalizedTerm(searchString)

(***************************************************************************)
(* C12 as claimed: in each attempt the page fetch is skipped if and only   *)
(* if safe-search is disabled and both cache keys are present; a           *)
(* safe-search query always fetches the page.                              *)
(***************************************************************************)
WarmCache == Has(CACHE, "clientVersion") /\ Has(CACHE, "playlistParams")

\* The current attempt has issued a page fetch.
FetchedThisAttempt == \E i \in 1..Len(net) : net[i].k = "GET" /\ net[i].r = retries

\* The current attempt went to its API POST without a page fetch; the cache
\* is still the one the attempt decided on.
FetchSkipped == pc = "post" /\ ~FetchedThisAttempt

\* The current attempt awaits its page fetch; the cache is still the one
\* the attempt decided on.
FetchIssued == pc = "fetch"

C12_SkippedIffUnsafeAndWarm ==
    /\ FetchSkipped => (~opts.safeSearch /\ WarmCache)
    /\ FetchIssued => ~(~opts.safeSearch /\ WarmCache)

(***************************************************************************)
(* C12 as amended: in each attempt the page fetch is skipped if and only   *)
(* if safe-search is enabled and both cache keys are present; a query      *)
(* without safe-search always fetches the page.                            *)
(***************************************************************************)
C12_SkippedIffSafeAndWarm ==
    /\ FetchSkipped => (opts.safeSearch /\ WarmCache)
    /\ FetchIssued => ~(opts.safeSearch /\ WarmCache)
    /\ (pc \in {"post", "page2", "done"} /\ ~opts.safeSearch) => FetchedThisAttempt

\* A safe-search call with a warm cache went to the API POST with no fetch.
C12_Witness ==
    /\ FetchSkipped
    /\ opts.safeSearch
    /\ WarmCache
    /\ net[Len(net)].k = "POST"

(***************************************************************************)
(* C13: when the attempt with counter 2 begins, both session cache keys    *)
(* are absent before any cache read or network request of that attempt,    *)
(* whatever the cache held before: the attempt reads a cold cache, so it   *)
(* always fetches the page, and the cache is empty while that fetch is     *)
(* outstanding.                                                            *)
(***************************************************************************)
SecondAttemptBegun == Len(attempts) >= 2 /\ retries = 2

C13_SecondAttemptStartsCold ==
    /\ SecondAttemptBegun => FetchedThisAttempt
    /\ (SecondAttemptBegun /\ pc = "fetch") => CACHE = CacheCleared

\* A safe-search call, whose first attempt skipped the fetch on a warm
\* cache, awaits the page fetch of its second attempt on an empty cache.
C13_Witness ==
    /\ SecondAttemptBegun
    /\ pc = "fetch"
    /\ opts.safeSearch
    /\ CACHE = CacheCleared
    /\ net[1].k = "POST"
    /\ net[1].r = MaxRetries

(***************************************************************************)
(* C14: within an attempt the initial API POST is issued if and only if    *)
(* the requested type is playlist, or safe-search is enabled, or the page  *)
(* fetch produced no seed JSON; a video query without safe-search whose    *)
(* page yielded seed JSON reuses that seed and issues no POST.             *)
(***************************************************************************)
\* The attempt with counter r issued a request of kind k.
Issued(k, r) == \E i \in 1..Len(net) : net[i].k = k /\ net[i].r = r

\* The counter of the attempt that made the latest judgement.
JudgedCounter == attempts[judged.attempt].r

C14_PostIffNeeded ==
    \* the POST is outstanding: parsed.json is still the seed
    /\ pc = "post" =>
          (opts.type = "playlist" \/ opts.safeSearch \/ ~Truthy(parsed.json))
    \* an attempt judged its document without a POST: the document is the
    \* seed of the page it fetched
    /\ (judged.attempt > 0 /\ ~Issued("POST", JudgedCounter)) =>
          /\ opts.type = "video"
          /\ ~opts.safeSearch
          /\ Truthy(judged.doc)
          /\ Issued("GET", JudgedCounter)
          /\ \E b \in Bodies : b.emb = "valid" /\ b.json = judged.doc

\* A video call without safe-search returned the items of the seed: its
\* only request is the page fetch.
C14_Witness ==
    /\ pc = "done"
    /\ ~opts.safeSearch
    /\ result.items # <<>>
    /\ Len(net) = 1
    /\ net[1].k = "GET"

(***************************************************************************)
(* C15 as claimed: for video and playlist queries alike, an attempt that   *)
(* ends with no usable JSON (a null API response included) or with an      *)
(* unrecognized document is followed by the next attempt, with the counter *)
(* decreased by one; the attempt itself raises no error.                   *)
(***************************************************************************)
\* The latest judgement was about a document that is no JSON, falsy, or of
\* no recognized shape.
JudgedUnusable == judged.attempt > 0 /\ judged.doc \in UnusableDocs \cup {NoJson}

\* The attempt that made the latest judgement was followed by the next one.
JudgedAttemptRetried ==
    /\ judged.attempt < Len(attempts)
    /\ attempts[judged.attempt + 1].r = JudgedCounter - 1

\* Every attempt found unusable was followed by the next attempt.
UnusableAttemptsRetried ==
    \A i \in 1..Len(attempts) :
        (attempts[i].json = "unusable" /\ i # judged.attempt) =>
            (i < Len(attempts) /\ attempts[i + 1].r = attempts[i].r - 1)

SettlesOk == Awaiting /\ Len(net') >= Len(net) /\ net'[Len(net)].out = "ok"

\* The step makes the current attempt judge the document it obtained.
JudgesNow == judged'.attempt = Len(attempts) /\ judged' # judged

\* The POST outstanding follows a page fetch of the same attempt that
\* yielded no seed.
PostAfterNullSeed == pc = "post" /\ FetchedThisAttempt /\ ~Truthy(parsed.json)

C16_NullSeedPostsInSameAttempt ==
    \* a null seed is never judged: an attempt that judged a document without
    \* a POST judged a truthy seed
    /\ [](judged.attempt > 0 /\ ~Issued("POST", JudgedCounter) => Truthy(judged.doc))
    \* a settled page fetch raises no error of its own: the call fails in that
    \* step only by exhausting the attempts on truthy, unrecognized seeds
    /\ [][(pc = "fetch" /\ SettlesOk /\ pc' = "failed") =>
              (error' = TerminalError /\ JudgesNow /\ Truthy(judged'.doc))]_vars
    \* a settled page fetch that yields no seed leaves the attempt at its POST
    /\ [][(pc = "fetch" /\ SettlesOk /\ ~JudgesNow /\ ~Truthy(parsed'.json)) =>
              (pc' = "post" /\ retries' = retries /\ attempts' = attempts
               /\ error' = NoVal)]_vars
    \* the POST after a null seed returns a recognized document: the call
    \* goes on in the same attempt and does not fail
    /\ [][(PostAfterNullSeed /\ SettlesOk /\ JudgesNow /\ judged'.doc \in SearchDocs) =>
              (pc' \in {"done", "page2"} /\ retries' = retries
               /\ Len(attempts') = Len(attempts) /\ error' = NoVal)]_vars

\* A video call without safe-search returned items in its first attempt
\* after a page fetch and an API POST: the page yielded no seed.
C16_Witness ==
    /\ pc = "done"
    /\ opts.type = "video"
    /\ ~opts.safeSearch
    /\ retries = MaxRetries
    /\ Len(attempts) = 1
    /\ Len(net) = 2
    /\ net[1].k = "GET" /\ net[1].out = "ok"
    /\ net[2].k = "POST" /\ net[2].out = "ok"
    /\ result.items # <<>>

(***************************************************************************)
(* C17: apart from the clear of the second attempt, an attempt changes a   *)
(* session cache key only by writing a non-empty value extracted from the  *)
(* page it fetched: a page yielding client version v sets clientVersion to *)
(* v before the API POST is issued; a skipped fetch, or a page yielding no *)
(* client version or no playlist filter parameter, leaves the key          *)
(* unchanged and raises no error.                                          *)
(***************************************************************************)
\* The non-empty values the pages of the upstream carry for each key.
PageValues ==
    [clientVersion |-> ({b.json.cver : b \in Bodies} \cup {b.textCv : b \in Bodies})
                          \ {NoVal, ""},
     playlistParams |-> {b.json.plp : b \in Bodies} \ {NoVal, ""}]

CacheKeys == {"clientVersion", "playlistParams"}

\* The step begins the attempt with counter 2.
SecondAttemptBegins ==
    \E i \in (Len(attempts) + 1)..Len(attempts') : attempts'[i].r = 2

\* The step settles the page fetch with a body.
PageArrives == pc = "fetch" /\ SettlesOk

C17_CacheWrittenFromPageOnly ==
    [][ /\ SecondAttemptBegins => CACHE' = CacheCleared
        /\ (~SecondAttemptBegins /\ ~PageArrives) => CACHE' = CACHE
        /\ (~SecondAttemptBegins /\ PageArrives) =>
              \A k \in CacheKeys : CACHE'[k] = CACHE[k] \/ CACHE'[k] \in PageValues[k]
        \* the attempt goes on to its POST: parsed is what the page yielded
        /\ (PageArrives /\ pc' = "post") =>
              /\ CACHE'.playlistParams =
                    IF getPlaylistParams(parsed') \notin {NoVal, ""}
                    THEN getPlaylistParams(parsed') ELSE CACHE.playlistParams
              /\ CACHE'.clientVersion =
                    IF parsed'.context.clientVersion # ""
                    THEN parsed'.context.clientVersion ELSE CACHE.clientVersion
              /\ net'[Len(net')].context = parsed'.context
              /\ error' = NoVal
      ]_vars

\* The page yielded the client version of its text and no embedded JSON:
\* the cache holds it while the API POST, which carries it, is outstanding.
C17_Witness ==
    /\ pc = "post"
    /\ FetchedThisAttempt
    /\ CACHE.clientVersion = "cvText"
    /\ CACHE.playlistParams = CACHE_INIT.playlistParams
    /\ LastRequest.context.clientVersion = "cvText"

(***************************************************************************)
(* C18: for the initial page and for a continuation batch, a list element  *)
(* that matches none of the known wrapper shapes is dropped while the      *)
(* items and the continuation of the other elements are still returned;    *)
(* such an element never makes the response rejected or the attempt        *)
(* retried.                                                                *)
(***************************************************************************)
KnownWrappers ==
    {"itemSectionRenderer", "richItemRenderer", "richSectionRenderer",
     "continuationItemRenderer"}

\* The element has one of the four known wrapper shapes.
KnownShape(e) == e.w \in KnownWrappers /\ e.ok

\* The document with the elements of unknown shape removed.
WithoutUnknown(doc) == [doc EXCEPT !.contents = SelectSeq(@, KnownShape)]

\* A search document that is well formed but for elements of unknown shape.
HasUnknownElement(doc) ==
    /\ doc.shape = "search"
    /\ doc.list \in {"sectionListRenderer", "richGridRenderer"}
    /\ doc.est.t \in {NoVal, "number", "string"}
    /\ \E i \in 1..Len(doc.contents) : ~KnownShape(doc.contents[i])

\* The continuation batches of every page number.
AllPage2Docs == UNION {Page2Docs(p) : p \in 1..(MaxPages + 1)}

C18_UnknownElementDropped ==
    /\ (judged.attempt > 0 /\ HasUnknownElement(judged.doc)) =>
          /\ attempts[judged.attempt].json = "usable"
          /\ parseWrapper(parseSearchResponse(judged.doc))
               = parseWrapper(parseSearchResponse(WithoutUnknown(judged.doc)))
    /\ \A d \in AllPage2Docs :
          parsePage2Response(d).ok =>
              parsePage2Wrapper(parsePage2Response(d).items)
               = parsePage2Wrapper(parsePage2Response(WithoutUnknown(d)).items)

\* What does hold: an element of unknown shape that is an object is dropped
\* from the initial page, and every element of unknown shape is dropped from
\* a continuation batch.
UnknownObjectDropped ==
    /\ (judged.attempt > 0 /\ HasUnknownElement(judged.doc)
          /\ \A i \in 1..Len(judged.doc.contents) : judged.doc.contents[i].w # "nonObject") =>
          /\ attempts[judged.attempt].json = "usable"
          /\ parseWrapper(parseSearchResponse(judged.doc))
               = parseWrapper(parseSearchResponse(WithoutUnknown(judged.doc)))
    /\ \A d \in AllPage2Docs :
          parsePage2Response(d).ok =>
              parsePage2Wrapper(parsePage2Response(d).items)
               = parsePage2Wrapper(parsePage2Response(WithoutUnknown(d)).items)

(***************************************************************************)
(* C19: for an initial-page document whose section list holds one item     *)
(* section of N well-formed items and one continuation element, the        *)
(* unwrapper returns exactly those N raw items in order and a non-null     *)
(* continuation; with the continuation element removed it returns the same *)
(* N items and a null continuation.                                        *)
(***************************************************************************)
\* A section list of one item section and one continuation element.
SectionWithContinuation(doc) ==
    /\ doc.shape = "search"
    /\ doc.list = "sectionListRenderer"
    /\ Len(doc.contents) = 2
    /\ doc.contents[1].w = "itemSectionRenderer" /\ doc.contents[1].ok
    /\ doc.contents[2].w = "continuationItemRenderer" /\ doc.contents[2].ok
    /\ doc.contents[2].token # NoVal

\* The same document with the continuation element removed.
WithoutContinuation(doc) == [doc EXCEPT !.contents = SelectSeq(@, NotContinuation)]

\* What the unwrapper returns for a document.
Unwrap(doc) == parseWrapper(parseSearchResponse(doc))

UnwrapsSectionAndContinuation(doc) ==
    LET with == Unwrap(doc)
        without == Unwrap(WithoutContinuation(doc))
    IN /\ parseSearchResponse(doc).ok
       /\ with.rawItems = doc.contents[1].items
       /\ with.continuation = doc.contents[2].token
       /\ with.continuation # NoVal
       /\ parseSearchResponse(WithoutContinuation(doc)).ok
       /\ without.rawItems = doc.contents[1].items
       /\ without.continuation = NoVal

\* Such documents for every N up to the page size, of one renderer and mixed.
SectionDocs ==
    { Doc("search", "sectionListRenderer",
          <<ItemSection(its), ContinuationItem("token")>>, NoEst, NoVal, NoVal) :
      its \in {VideoItems(0, n) : n \in 0..PageSize} \cup {MixedItems(0)} }

C19_SectionUnwrapped ==
    \* the unwrapper as a function, stated where no call is in progress
    /\ pc = "idle" =>
          \A doc \in SectionDocs :
              SectionWithContinuation(doc) /\ UnwrapsSectionAndContinuation(doc)
    \* the unwrapper as the calls apply it
    /\ (judged.attempt > 0 /\ SectionWithContinuation(judged.doc)) =>
          /\ UnwrapsSectionAndContinuation(judged.doc)
          /\ attempts[judged.attempt].json = "usable"
          /\ pages # <<>>
          /\ pages[1].token
          /\ pages[1].matching =
                Len(FilterType(MapParseItem(judged.doc.contents[1].items), opts.type))

\* A video call kept all the items of a section served with a continuation
\* element and went on to the continuation request.
C19_Witness ==
    /\ pc = "page2"
    /\ SectionWithContinuation(judged.doc)
    /\ Len(judged.doc.contents[1].items) = PageSize
    /\ Len(items) = PageSize
    /\ pages[1].token
    /\ LastRequest.continuation = judged.doc.contents[2].token

(***************************************************************************)
(* C20: a raw item for which the normalizer returns null (an unrecognized  *)
(* renderer, or one missing a required field such as videoId) is excluded  *)
(* from the result, is never returned as a partially filled entity, and    *)
(* causes neither an error nor a retry; the other items of the same        *)
(* response are still returned.                                            *)
(***************************************************************************)
\* A raw item the normalizer can make nothing of: no known renderer, or no
\* id.
Unparseable(raw) ==
    \/ raw.r \notin {"videoRenderer", "gridVideoRenderer", "playlistRenderer",
                     "lockupViewModel"}
    \/ raw.id = NoId

\* The entity of a parseable raw item.
EntityOf(raw) ==
    Entity(IF raw.r \in {"videoRenderer", "gridVideoRenderer"} THEN "video" ELSE "playlist",
           raw.id)

\* The entities of the parseable raw items of the requested type, in order.
ExpectedEntities(rawItems, type) ==
    LET Wanted(raw) == ~Unparseable(raw) /\ EntityOf(raw).type = type
        wanted == SelectSeq(rawItems, Wanted)
    IN [i \in 1..Len(wanted) |-> EntityOf(wanted[i])]

\* s is the sequence t, or the part of t that limit allows.
IsLimited(s, t, limit) ==
    /\ Len(s) <= Len(t)
    /\ s = SubSeq(t, 1, Len(s))
    /\ Len(s) = Len(t) \/ Len(s) * LimitDen >= limit

\* The latest judgement accepted a document with an unparseable raw item.
JudgedWithUnparseable ==
    /\ judged.attempt > 0
    /\ parseSearchResponse(judged.doc).ok
    /\ LET rawItems == Unwrap(judged.doc).rawItems
       IN \E i \in 1..Len(rawItems) : Unparseable(rawItems[i])

C20_NullItemsExcluded ==
    /\ \A i \in 1..Len(result.items) :
          /\ result.items[i].type \in {"video", "playlist"}
          /\ result.items[i].id # NoId
    /\ \A i \in 1..Len(items) : items[i] # Null /\ items[i].id # NoId
    /\ \A f \in 1..Len(frames) : \A i \in 1..Len(frames[f]) :
          frames[f][i] # Null /\ frames[f][i].id # NoId
    /\ JudgedWithUnparseable =>
          /\ attempts[judged.attempt].json = "usable"
          /\ judged.attempt = Len(attempts)
          /\ error \notin {TerminalError, PlaylistError}
          /\ IsLimited(items, ExpectedEntities(Unwrap(judged.doc).rawItems, opts.type),
                       RequestedLimit(options))

\* A call returned the parseable items of a response that also held a
\* renderer without id and an unrecognized renderer, in its first attempt.
C20_Witness ==
    /\ pc = "done"
    /\ JudgedWithUnparseable
    /\ \E i \in 1..Len(Unwrap(judged.doc).rawItems) :
          Unwrap(judged.doc).rawItems[i] = Raw("videoRenderer", NoId)
    /\ result.items # <<>>
    /\ Len(attempts) = 1

(***************************************************************************)
(* C21: within one search invocation at most one network request is        *)
(* outstanding at any time: the page fetch, the initial API POST and the   *)
(* continuation requests are issued strictly one after another, and        *)
(* continuation request k+1 is issued only after the response to request k *)
(* has been unwrapped.                                                     *)
(***************************************************************************)
Outstanding == {i \in 1..Len(net) : net[i].out = "pending"}

\* The place of a request in its attempt.
Rank(k) == IF k = "GET" THEN 1 ELSE IF k = "POST" THEN 2 ELSE 3

C21_OneRequestOutstanding ==
    /\ Cardinality(Outstanding) <= 1
    /\ Outstanding # {} <=> Awaiting
    /\ Outstanding \subseteq {Len(net)}
    \* within an attempt: the fetch, then the POST, then the continuations
    /\ \A i, j \in 1..Len(net) :
          (i < j /\ net[i].r = net[j].r) =>
              (Rank(net[i].k) < Rank(net[j].k) \/ (net[i].k = "CONT" /\ net[j].k = "CONT"))
    \* every continuation request follows the unwrapping of the batch before
    /\ Cardinality(ContinuationRequests) <= Len(pages)
    /\ pc = "page2" => Cardinality(ContinuationRequests) = Len(pages)

\* The second continuation request is outstanding; the page fetch, the API
\* POST and the first continuation request have been answered.
C21_Witness ==
    /\ pc = "page2"
    /\ Len(net) = 4
    /\ net[1].k = "GET" /\ net[2].k = "POST" /\ net[3].k = "CONT" /\ net[4].k = "CONT"
    /\ \A i \in 1..3 : net[i].out = "ok"
    /\ net[4].out = "pending"
    /\ Len(pages) = 2

(***************************************************************************)
(* C22: when a continuation request fails after earlier pages succeeded,   *)
(* the returned items include every item kept from the initial response    *)
(* and from every continuation page fetched before the failure.  Stated    *)
(* for a failure that follows at least one answered continuation request:  *)
(* `frames` holds the items kept from those pages.                         *)
(***************************************************************************)
\* The outstanding continuation request fails in this step.
ContinuationFails ==
    /\ pc = "page2"
    /\ Len(net') = Len(net)
    /\ net'[Len(net')].out = "fail"

C22_FetchedPagesKeptOnFailure ==
    [][(ContinuationFails /\ frames # <<>>) =>
          /\ pc' = "done"
          /\ result'.items = FilterType(items \o ConcatAll(frames), opts.type)]_vars

(***************************************************************************)
(* C23: every search invocation with a valid query terminates (it returns  *)
(* a result or raises an error after finitely many network requests); and  *)
(* when every continuation page yields at least one matching item, the     *)
(* number of continuation requests is at most the remaining limit.         *)
(***************************************************************************)
Finished == pc \in {"done", "failed"}

\* Every batch the walker has unwrapped so far yielded a matching item.
EveryPageYields == \A i \in 1..Len(WalkerPages) : WalkerPages[i].matching >= 1

ContinuationRequestsWithinLimit ==
    (ContinuationRequests # {} /\ EveryPageYields) =>
        Cardinality(ContinuationRequests) * LimitDen <= RemainingLimit

SafePostAnswered ==
    \E i \in 1..Len(net) :
        /\ net[i].k = "POST"
        /\ net[i].r = retries
        /\ net[i].out = "ok"
        /\ net[i].context.enableSafetyMode

C24_SafeResultsFromSafeRequests ==
    (pc = "done" /\ opts.safeSearch /\ result.items # <<>>) =>
        /\ SafePostAnswered
        /\ \A i \in ContinuationRequests : net[i].context.enableSafetyMode

(***************************************************************************)
(* C25: in every reachable state, the attempt after the cache clear        *)
(* included, every API POST (initial or continuation) carries a context    *)
(* whose clientVersion is a non-empty string recovered from the fetched    *)
(* page or from the cache.                                                 *)
(***************************************************************************)
ApiPosts == {i \in 1..Len(net) : net[i].k \in {"POST", "CONT"}}

C25_PostsCarryClientVersion ==
    \A i \in ApiPosts :
        /\ net[i].context.def
        /\ net[i].context.clientVersion \notin {NoVal, ""}

(***************************************************************************)
(* C26: every API POST of a playlist search carries a defined, non-empty   *)
(* `params` filter value (taken from the cache or derived from the fetched *)
(* page), in every attempt including the one that follows the cache clear. *)
(***************************************************************************)
C26_PlaylistPostsCarryParams ==
    opts.type = "playlist" =>
        \A i \in 1..Len(net) :
            net[i].k = "POST" => net[i].params \notin {NoVal, ""}

(***************************************************************************)
(* C27: for every numeric utcOffsetMinutes supplied by the caller,         *)
(* including 0, the context of every API POST of that search carries       *)
(* exactly that value; the default -300 is used only when the caller       *)
(* supplies no numeric utcOffsetMinutes.                                   *)
(***************************************************************************)
C27_PostsCarryCallerOffset ==
    \A i \in ApiPosts :
        net[i].context.utcOffsetMinutes =
            IF options.utcOffsetMinutes.t = "number"
            THEN options.utcOffsetMinutes.n
            ELSE DEFAULT_UTC_OFFSET_MINUTES

\* Every offset but 0 is carried: the statement above fails for 0 only.
NonZeroOffsetCarried ==
    \A i \in ApiPosts :
        (options.utcOffsetMinutes.t = "number" /\ options.utcOffsetMinutes.n # 0) =>
            net[i].context.utcOffsetMinutes = options.utcOffsetMinutes.n

====
